---- MODULE Spec2Model ----
(***************************************************************************)
(* Model of src/lib/cryptoApi.ts (fallback-chain version of                *)
(* fetchCryptoPrices): the ordered multi-provider price resolution         *)
(*   CoinGecko -> CoinMarketCap -> CryptoCompare -> Kaiko                  *)
(* with the module-level CoinGecko coin-list cache.                        *)
(*                                                                         *)
(* A Resolve call is an async function: it runs atomically between two     *)
(* awaits.  Each action below is one such segment: it starts when the      *)
(* awaited promise settles (an upstream response arrives, or an adapter    *)
(* returns) and ends at the next await.                                    *)
(***************************************************************************)
EXTENDS Integers, Sequences, FiniteSets, TLC

(***************************************************************************)
(* Bounds of the model.                                                    *)
(***************************************************************************)
\* longest assetSymbols array passed to fetchCryptoPrices
MaxLen == 2
\* number of fetchCryptoPrices calls started in one process lifetime
MaxCalls == 2

(***************************************************************************)
(* JSON / JavaScript values.  A value is a record [kind, n]:               *)
(*   undefined          a missing property (optional chaining result)      *)
(*   number  n          a finite number                                    *)
(*   nan                the number NaN                                      *)
(*   numstr  n          a string holding the decimal text of n ("7")       *)
(*   text               a string that is not the text of a number ("abc")  *)
(*   true               the boolean true                                   *)
(***************************************************************************)
Undefined == [kind |-> "undefined", n |-> 0]
NaN == [kind |-> "nan", n |-> 0]
Num(i) == [kind |-> "number", n |-> i]
NumStr(i) == [kind |-> "numstr", n |-> i]
Text == [kind |-> "text", n |-> 0]
True == [kind |-> "true", n |-> 1]

\* ECMAScript ToNumber, applied by the relational operator to a non-number
ToNumber(v) ==
  CASE v.kind = "number" -> v
    [] v.kind = "numstr" -> Num(v.n)
    [] v.kind = "true" -> Num(1)
    [] OTHER -> NaN

\* parseFloat(v): the argument is converted to a string first
parseFloat(v) ==
  CASE v.kind = "number" -> v
    [] v.kind = "numstr" -> Num(v.n)
    [] OTHER -> NaN

\* ToBoolean, as used by `x || 0`
Truthy(v) ==
  CASE v.kind = "undefined" -> FALSE
    [] v.kind = "nan" -> FALSE
    [] v.kind = "number" -> v.n # 0
    [] OTHER -> TRUE

\* variant: the value is used as it came
OrSelf(v) == v

\* `x || 0`
OrZero(v) == IF Truthy(v) THEN v ELSE Num(0)

\* variant: the test written `price >= 0`
IsNonNegative(v) ==
  LET x == ToNumber(v) IN x.kind = "number" /\ x.n >= 0

\* `price > 0`: the relational operator converts a non-number operand
IsPositive(v) ==
  LET x == ToNumber(v) IN x.kind = "number" /\ x.n > 0

(***************************************************************************)
(* Asset symbols and String.prototype.toLowerCase / toUpperCase on them.   *)
(***************************************************************************)
Symbols == {"BTC", "btc", "ETH"}

toLowerCase(s) ==
  CASE s = "BTC" -> "btc"
    [] s = "btc" -> "btc"
    [] s = "ETH" -> "eth"
    [] OTHER -> s

toUpperCase(s) ==
  CASE s = "BTC" -> "BTC"
    [] s = "btc" -> "BTC"
    [] s = "ETH" -> "ETH"
    [] s = "eth" -> "ETH"
    [] OTHER -> s

\* every array of at most MaxLen symbols, duplicates included
SeqsUpTo(S, n) == UNION {[1..k -> S] : k \in 0..n}
Inputs == SeqsUpTo(Symbols, MaxLen)

Range(seq) == {seq[j] : j \in 1..Len(seq)}

(***************************************************************************)
(* type PriceData / PriceResult.  A PriceResult is a function from the     *)
(* keys of the object to PriceData records.                                *)
(***************************************************************************)
PriceData(usd, change) == [usd |-> usd, usd_7d_change |-> change]
ZeroQuote == PriceData(Num(0), Num(0))
EmptyResult == [s \in {} |-> ZeroQuote]

\* Object.assign(target, source): source's entries overwrite target's
ObjectAssign(target, source) ==
  [s \in DOMAIN target \cup DOMAIN source |->
     IF s \in DOMAIN source THEN source[s] ELSE target[s]]

\* variant: the array is taken as given, duplicates included
KeepDuplicates(arr) == arr

\* [...new Set(assetSymbols)]: first occurrences, in order, compared by ===
RECURSIVE Unique(_)
Unique(arr) ==
  IF arr = <<>> THEN <<>>
  ELSE LET front == Unique(SubSeq(arr, 1, Len(arr) - 1))
           last == arr[Len(arr)]
       IN IF last \in Range(front) THEN front ELSE Append(front, last)

\* variant: the filter is left out, remainingSymbols never shrinks
KeepAll(remainingSymbols, finalPrices) == remainingSymbols

\* variant: the filter written without the negation
StillRemainingInverted(remainingSymbols, finalPrices) ==
  SelectSeq(remainingSymbols, LAMBDA s : s \in DOMAIN finalPrices)

\* remainingSymbols.filter(s => !finalPrices[s])
StillRemaining(remainingSymbols, finalPrices) ==
  SelectSeq(remainingSymbols, LAMBDA s : s \notin DOMAIN finalPrices)

(***************************************************************************)
(* The CoinGecko coin list (interface CoinGeckoCoin) and the lists the     *)
(* upstream may answer with.                                               *)
(***************************************************************************)
Bitcoin == [id |-> "bitcoin", symbol |-> "btc"]
Ethereum == [id |-> "ethereum", symbol |-> "eth"]
CoinLists == {<<>>, <<Bitcoin>>, <<Bitcoin, Ethereum>>}

\* coinGeckoListCache: null, or the cached array
NullCache == [isNull |-> TRUE, list |-> <<>>]
Cached(list) == [isNull |-> FALSE, list |-> list]

\* variant: the symbol is compared as given, without toLowerCase()
FindCoinExact(coinList, symbol) ==
  LET hits == {j \in 1..Len(coinList) : coinList[j].symbol = symbol}
  IN IF hits = {} THEN 0 ELSE CHOOSE j \in hits : \A h \in hits : j <= h

\* coinList.find(c => c.symbol === symbol.toLowerCase()): index of the first
\* match, 0 when find returns undefined
FindCoin(coinList, symbol) ==
  LET hits == {j \in 1..Len(coinList) : coinList[j].symbol = toLowerCase(symbol)}
  IN IF hits = {} THEN 0 ELSE CHOOSE j \in hits : \A h \in hits : j <= h

\* the symbols for which find returned a coin, in input order
Matched(coinList, symbols) ==
  SelectSeq(symbols, LAMBDA s : FindCoin(coinList, s) # 0)

\* symbols.map(...).filter(id => id !== null)
CoingeckoIds(coinList, symbols) ==
  LET m == Matched(coinList, symbols)
  IN [j \in 1..Len(m) |-> coinList[FindCoin(coinList, m[j])].id]

\* variant: an id already in the map keeps its first symbol
IdToSymbolMapFirst(coinList, symbols) ==
  LET m == SelectSeq(symbols, LAMBDA s : FindCoin(coinList, s) # 0)
      ids == [j \in 1..Len(m) |-> coinList[FindCoin(coinList, m[j])].id]
  IN [id \in Range(ids) |->
        m[CHOOSE j \in 1..Len(m) :
            /\ ids[j] = id
            /\ \A h \in 1..Len(m) : ids[h] = id => j <= h]]

\* idToSymbolMap after the map callback ran over symbols: a later symbol
\* with the same coin id overwrites an earlier one
IdToSymbolMap(coinList, symbols) ==
  LET m == Matched(coinList, symbols)
      ids == CoingeckoIds(coinList, symbols)
  IN [id \in Range(ids) |->
        m[CHOOSE j \in 1..Len(m) :
            /\ ids[j] = id
            /\ \A h \in 1..Len(m) : ids[h] = id => h <= j]]

(***************************************************************************)
(* What an upstream may answer.                                            *)
(***************************************************************************)
\* the value found at the price property of a 200 response
PriceVals == {Undefined, Text, Num(0), Num(-1), Num(5), Num(7), NumStr(7), True}
\* the value found at the 7-day change property
ChangeVals == {Undefined, Num(-1)}
\* what a body says about one asset
Entries == [price : PriceVals, change : ChangeVals]
\* a request that does not yield a parsed body: non-success status, fetch
\* rejects, response.json() rejects or the body has the wrong shape
Failures == {"status", "network", "body"}

Ranks == 1..4
Calls == {1, 2}

(***************************************************************************)
(* State.                                                                  *)
(***************************************************************************)
VARIABLES
  COINMARKETCAP_API_KEY,   \* TRUE when the key is configured (truthy)
  KAIKO_API_KEY,           \* TRUE when the token is configured (truthy)
  coinGeckoListCache,      \* the module-level cache
  call,                    \* per fetchCryptoPrices call: its locals and position
  started,                 \* number of fetchCryptoPrices calls started
  listRequests,            \* number of /coins/list requests issued
  listFailures,            \* number of /coins/list requests that failed
  upstream,                \* what the providers hold, where a specification
                           \* keeps it fixed for the process lifetime
  staticCall,              \* a call of the static-map fetchCryptoPrices
  dashboard                \* the Dashboard component: its React state and the
                           \* position of calculateMetrics

vars == <<COINMARKETCAP_API_KEY, KAIKO_API_KEY, coinGeckoListCache, call,
          started, listRequests, listFailures, upstream, staticCall,
                 dashboard>>

EmptyIdMap == [id \in {} |-> ""]

(***************************************************************************)
(* The static-map fetchCryptoPrices and the Dashboard component before     *)
(* they run.  An error state is null or a message.                         *)
(***************************************************************************)
Null == [isNull |-> TRUE, text |-> ""]
Message(text) == [isNull |-> FALSE, text |-> text]

\* a static-map call that is not running: its locals, the number of requests
\* it issued, what it returned or threw, and whether it logged
IdleStatic ==
  [pc |-> "idle", assetSymbols |-> <<>>, coingeckoIds |-> <<>>,
   idToSymbolMap |-> EmptyIdMap, requests |-> 0, outcome |-> "none",
   result |-> "none", value |-> EmptyResult, logged |-> FALSE,
   data |-> EmptyResult]

\* the component after its first render: useState(null), useState([]),
\* useState(true), useState(null); the effect has not run yet
\* besides the React state: the locals of calculateMetrics that the later
\* steps read, and the step that threw
Mounted ==
  [pc |-> "mounted", loading |-> TRUE, error |-> Null,
   metrics |-> [isNull |-> TRUE, totalValue |-> 0],
   openPositions |-> {}, clientOwnership |-> FALSE,
   cashBalance |-> 0, assetIdsToFetch |-> <<>>,
   quantity |-> [a \in {} |-> 0], held |-> [a \in {} |-> 0],
   threw |-> "none"]

\* the upstream data is not fixed: every request may get any answer
NoUpstream == [fixed |-> FALSE]

\* A call that is not running.  The fields up to `result` are the locals of
\* fetchCryptoPrices and of the adapter it awaits; the others record what
\* happened in the call:
\*   invoked   ranks whose adapter was called
\*   asked     the symbols array each adapter was called with
\*   ret       the PriceResult each adapter returned
\*   outcome   how each adapter's upstream call ended
\*   answered  ranks that got a price response with a success status and
\*             a parsed body
\*   badPrice  the asked symbols whose parsed price was not a number > 0
\*   filled    the symbols written by the final "all providers failed" block
\*   listReqs  /coins/list requests issued by this call
\*   failuresAtStart  /coins/list requests that had failed when it started
\*   diag      the "Total System Failure" console.error was emitted
\*   reported  the array that console.error was given
\*   coinList  the array getCoinGeckoList returned to tryCoinGecko
\*   requested the assets named in the price requests each adapter issued,
\*             as written in the URL
\*   noChange  the symbols each adapter returned from an answer without
\*             7-day change data
\*   kaikoFailed  the symbols whose Kaiko request got a non-success status
\*             or threw
IdleCall ==
  [pc |-> "idle", rank |-> 0,
   assetSymbols |-> <<>>, remainingSymbols |-> <<>>, finalPrices |-> EmptyResult,
   coingeckoIds |-> <<>>, idToSymbolMap |-> EmptyIdMap,
   prices |-> EmptyResult, i |-> 0, thrown |-> FALSE, result |-> "none",
   invoked |-> {}, asked |-> [k \in Ranks |-> <<>>],
   ret |-> [k \in Ranks |-> EmptyResult],
   outcome |-> [k \in Ranks |-> "none"],
   answered |-> {}, badPrice |-> [k \in Ranks |-> {}], filled |-> {},
   listReqs |-> 0, failuresAtStart |-> 0, diag |-> FALSE,
   coinList |-> <<>>, requested |-> [k \in Ranks |-> <<>>],
   noChange |-> [k \in Ranks |-> {}], kaikoFailed |-> {}, reported |-> <<>>]

Init ==
  /\ COINMARKETCAP_API_KEY \in BOOLEAN
  /\ KAIKO_API_KEY \in BOOLEAN
  /\ coinGeckoListCache = NullCache
  /\ call = [c \in Calls |-> IdleCall]
  /\ started = 0
  /\ listRequests = 0
  /\ listFailures = 0
  /\ upstream = NoUpstream
  /\ staticCall = IdleStatic
  /\ dashboard = Mounted

(***************************************************************************)
(* Building blocks of the adapters.                                        *)
(***************************************************************************)
\* variant: no catch block, the error leaves the adapter
RethrownAlways(error) == error

\* the catch block of an adapter: it logs the error and falls through to
\* `return prices`; the result says whether the error leaves the adapter
Rethrown(error) == FALSE

\* the adapter of rank k returns `prices` (or throws) to the awaiting
\* fetchCryptoPrices
AdapterReturns(st, k, prices, error, how, bad) ==
  [st EXCEPT !.pc = "returned", !.rank = k, !.prices = prices,
             !.thrown = Rethrown(error),
             !.ret[k] = prices, !.outcome[k] = how, !.badPrice[k] = bad,
             !.answered = IF how = "ok" THEN @ \cup {k} ELSE @]

\* the prices an adapter builds from a parsed body: body gives, for a symbol,
\* the [price, change] it reads for that symbol
Accepted(symbols, body(_)) ==
  [s \in {x \in Range(symbols) : IsPositive(body(x).price)} |->
     PriceData(body(s).price, OrZero(body(s).change))]

NotAccepted(symbols, body(_)) ==
  {x \in Range(symbols) : ~(body(x).price.kind = "number" /\ body(x).price.n > 0)}

\* the symbols accepted from a body that has no 7-day change for them
WithoutChange(symbols, body(_)) ==
  {x \in Range(symbols) : IsPositive(body(x).price) /\ body(x).change = Undefined}

\* tryCoinGecko from `const coinList = await getCoinGeckoList()` on
AfterCoinList(st, coinList, how) ==
  LET ids == CoingeckoIds(coinList, st.remainingSymbols)
      st1 == [st EXCEPT !.coinList = coinList]
  IN IF Len(ids) = 0
     THEN \* if (coingeckoIds.length === 0) return prices
          AdapterReturns(st1, 1, EmptyResult, FALSE, how, {})
     ELSE \* await fetch('.../coins/markets?...&ids=' + coingeckoIds.join(','))
          [st1 EXCEPT !.pc = "markets", !.coingeckoIds = ids,
                      !.idToSymbolMap = IdToSymbolMap(coinList, st.remainingSymbols),
                      !.requested[1] = ids]

(***************************************************************************)
(* The environment of a specification: the inputs the caller passes and    *)
(* the answers the upstreams give.  An answer is "ok" with a parsed body,  *)
(* or one of the failures.                                                 *)
(***************************************************************************)
Kinds(failures) == {"ok"} \cup failures

\* the bodies [keys -> entries] of an "ok" answer; a failure carries none
Bodies(kind, keys, entries, none) ==
  IF kind = "ok" THEN [keys -> entries] ELSE {[k \in keys |-> none]}

NoEntry == [price |-> Undefined, change |-> Undefined]

\* variant: the cache is never consulted
CacheHitNever(cache) == FALSE

\* getCoinGeckoList: `if (coinGeckoListCache)`, an array being truthy
CacheHit(cache) == ~cache.isNull

\* variant: the catch block resets the cache
CacheResetOnFailure(cache) == NullCache

\* variant: the catch block caches the empty list it returns
CacheEmptyListOnFailure(cache) == Cached(<<>>)

\* getCoinGeckoList: what its catch block leaves in the cache
CacheAfterFailure(cache) == cache

\* variant: the adapter does not return early on an empty array
IsEmptyNever(symbols) == FALSE

\* tryCoinGecko: `if (symbols.length === 0) return prices`
IsEmpty(symbols) == Len(symbols) = 0

\* variant: a cache hit yields an empty list
ListFromCacheEmpty(cache) == <<>>

\* getCoinGeckoList: `return coinGeckoListCache` on a cache hit
ListFromCache(cache) == cache.list

\* variant: finalPrices is one module-level object, emptied by every call
SharedLocals(calls, c, st) ==
  [d \in DOMAIN calls |->
     IF d = c THEN st ELSE [calls[d] EXCEPT !.finalPrices = EmptyResult]]

\* `const finalPrices = {}` and `let remainingSymbols` are locals of the
\* call: a starting call creates its own and touches no other call's
OwnLocals(calls, c, st) == [calls EXCEPT ![c] = st]

(***************************************************************************)
(* fetchCryptoPrices, from its first line to the first await: the          *)
(* deduplication, the call of tryCoinGecko and, inside it, of              *)
(* getCoinGeckoList.                                                       *)
(***************************************************************************)
Start(c, env) ==
  /\ call[c].pc = "idle"
  /\ started < env.maxCalls
  /\ started' = started + 1
  /\ \E assetSymbols \in env.inputs :
       LET remainingSymbols == Unique(assetSymbols)
           st == [IdleCall EXCEPT !.assetSymbols = assetSymbols,
                                  !.remainingSymbols = remainingSymbols,
                                  !.invoked = {1},
                                  !.failuresAtStart = listFailures,
                                  !.asked[1] = remainingSymbols]
       IN IF IsEmpty(remainingSymbols)
          THEN \* tryCoinGecko: if (symbols.length === 0) return prices
               /\ call' = OwnLocals(call, c,
                    AdapterReturns(st, 1, EmptyResult, FALSE, "empty", {}))
               /\ UNCHANGED listRequests
          ELSE IF CacheHit(coinGeckoListCache)
          THEN \* getCoinGeckoList: if (coinGeckoListCache) return it
               /\ call' = OwnLocals(call, c,
                    AfterCoinList(st, ListFromCache(coinGeckoListCache), "nomatch"))
               /\ UNCHANGED listRequests
          ELSE \* await fetch('.../coins/list')
               /\ call' = OwnLocals(call, c,
                    [st EXCEPT !.pc = "list", !.listReqs = 1])
               /\ listRequests' = listRequests + 1
  /\ UNCHANGED <<COINMARKETCAP_API_KEY, KAIKO_API_KEY, coinGeckoListCache,
                 listFailures, upstream, staticCall,
                 dashboard>>

(***************************************************************************)
(* getCoinGeckoList after its fetch settled, then tryCoinGecko up to the   *)
(* markets fetch.                                                          *)
(***************************************************************************)
CoinListResponse(c, env) ==
  /\ call[c].pc = "list"
  /\ \E kind \in Kinds(env.failures) :
     \E data \in (IF kind = "ok" THEN env.lists ELSE {<<>>}) :
       IF kind = "ok"
       THEN \* response.ok and response.json() gave the list
            /\ coinGeckoListCache' = Cached(data)
            /\ call' = [call EXCEPT ![c] = AfterCoinList(call[c], data, "nomatch")]
            /\ UNCHANGED listFailures
       ELSE \* the catch block of getCoinGeckoList: return []
            /\ call' = [call EXCEPT ![c] = AfterCoinList(call[c], <<>>, "listfail")]
            /\ listFailures' = listFailures + 1
            /\ coinGeckoListCache' = CacheAfterFailure(coinGeckoListCache)
  /\ UNCHANGED <<COINMARKETCAP_API_KEY, KAIKO_API_KEY, started, listRequests,
                 upstream, staticCall,
                 dashboard>>

(***************************************************************************)
(* tryCoinGecko after the markets fetch settled.                           *)
(***************************************************************************)
MarketsResponse(c, env) ==
  LET st == call[c]
      ids == Range(st.coingeckoIds)
  IN
  /\ st.pc = "markets"
  /\ \E kind \in Kinds(env.failures) :
     \E marketData \in Bodies(kind, ids, env.markets, NoEntry) :
       \* for (const coin of marketData): symbol = idToSymbolMap[coin.id]
       LET written == {st.idToSymbolMap[id] : id \in ids}
           idOf(s) == CHOOSE id \in ids : st.idToSymbolMap[id] = s
           body(s) == marketData[idOf(s)]
           hit == SelectSeq(st.remainingSymbols, LAMBDA s : s \in written)
       IN call' = [call EXCEPT ![c] =
            IF kind = "ok"
            THEN [AdapterReturns(st, 1, Accepted(hit, body), FALSE, "ok",
                                 NotAccepted(hit, body))
                    EXCEPT !.noChange[1] = WithoutChange(hit, body)]
            ELSE AdapterReturns(st, 1, EmptyResult, TRUE, kind, {})]
  /\ UNCHANGED <<COINMARKETCAP_API_KEY, KAIKO_API_KEY, coinGeckoListCache,
                 started, listRequests, listFailures, upstream, staticCall,
                 dashboard>>

(***************************************************************************)
(* The adapters of rank 2 to 4, from their call to their first await.      *)
(***************************************************************************)
\* variant: the adapters do not look at their key
KeyNeverMissing(key) == FALSE

\* `if (!COINMARKETCAP_API_KEY)`, `if (!KAIKO_API_KEY)`
KeyMissing(key) == ~key

\* symbols.join(',').toUpperCase(), as the list of names it holds
UpperCased(symbols) == [j \in 1..Len(symbols) |-> toUpperCase(symbols[j])]

InvokeAdapter(st, k, remainingSymbols, cmcKey, kaikoKey) ==
  LET st1 == [st EXCEPT !.invoked = @ \cup {k}, !.asked[k] = remainingSymbols,
                        !.prices = EmptyResult]
  IN CASE Len(remainingSymbols) = 0 ->
            \* if (symbols.length === 0) return prices
            AdapterReturns(st1, k, EmptyResult, FALSE, "empty", {})
       [] k = 2 ->
            IF KeyMissing(cmcKey)
            THEN AdapterReturns(st1, 2, EmptyResult, FALSE, "nokey", {})
            ELSE \* symbols.join(',').toUpperCase()
                 [st1 EXCEPT !.pc = "cmc", !.rank = 2,
                             !.requested[2] = UpperCased(remainingSymbols)]
       [] k = 3 -> [st1 EXCEPT !.pc = "cc", !.rank = 3,
                               !.requested[3] = UpperCased(remainingSymbols)]
       [] k = 4 ->
            IF KeyMissing(kaikoKey)
            THEN AdapterReturns(st1, 4, EmptyResult, FALSE, "nokey", {})
            ELSE \* the request for symbols[0]: .../${symbol.toLowerCase()}/usd
                 [st1 EXCEPT !.pc = "kaiko", !.rank = 4, !.i = 1,
                             !.requested[4] = <<toLowerCase(remainingSymbols[1])>>]

\* variant: CryptoCompare is tried before CoinMarketCap
NextRankSwapped(rank) ==
  CASE rank = 1 -> 3
    [] rank = 3 -> 2
    [] rank = 2 -> 4
    [] OTHER -> 5

\* the order of the provider blocks in fetchCryptoPrices
NextRank(rank) == rank + 1

\* variant: the providers are called whatever remains
AlwaysInvoke(remainingSymbols) == TRUE

\* `if (remainingSymbols.length > 0)` in front of providers 2, 3 and 4
ShouldInvoke(remainingSymbols) == Len(remainingSymbols) > 0

\* variant: the final block runs whatever remains
TotalFailureAlways(remainingSymbols) == TRUE

\* `if (remainingSymbols.length > 0)` in front of the final block
TotalFailure(remainingSymbols) == Len(remainingSymbols) > 0

\* variant: the final block is missing
FillNothing(finalPrices, remainingSymbols) == finalPrices

\* variant: only the first remaining symbol gets the placeholder
FillFirstOnly(finalPrices, remainingSymbols) ==
  IF remainingSymbols = <<>> THEN finalPrices
  ELSE ObjectAssign(finalPrices, [s \in {remainingSymbols[1]} |-> ZeroQuote])

\* the final block: every symbol still remaining gets { usd: 0, usd_7d_change: 0 }
FillRemaining(finalPrices, remainingSymbols) ==
  ObjectAssign(finalPrices, [s \in Range(remainingSymbols) |-> ZeroQuote])

(***************************************************************************)
(* fetchCryptoPrices from the return of the awaited adapter to the next    *)
(* await, or to its own return.                                            *)
(***************************************************************************)
Continue(c) ==
  LET st == call[c]
      finalPrices == ObjectAssign(st.finalPrices, st.prices)
      remainingSymbols == StillRemaining(st.remainingSymbols, finalPrices)
      merged == [st EXCEPT !.finalPrices = finalPrices,
                           !.remainingSymbols = remainingSymbols,
                           !.prices = EmptyResult]
  IN
  /\ st.pc = "returned"
  /\ call' = [call EXCEPT ![c] =
       IF st.thrown
       THEN \* the await rethrows and fetchCryptoPrices has no handler
            [st EXCEPT !.pc = "done", !.result = "threw"]
       ELSE IF st.rank < 4 /\ ShouldInvoke(remainingSymbols)
       THEN InvokeAdapter(merged, NextRank(st.rank), remainingSymbols,
                          COINMARKETCAP_API_KEY, KAIKO_API_KEY)
       ELSE IF TotalFailure(remainingSymbols)
       THEN \* console.error("Total System Failure: ...", remainingSymbols)
            \* and the placeholder for each of them
            [merged EXCEPT !.pc = "done", !.result = "returned",
                           !.finalPrices = FillRemaining(finalPrices, remainingSymbols),
                           !.filled = Range(remainingSymbols),
                           !.diag = TRUE, !.reported = remainingSymbols]
       ELSE [merged EXCEPT !.pc = "done", !.result = "returned"]]
  /\ UNCHANGED <<COINMARKETCAP_API_KEY, KAIKO_API_KEY, coinGeckoListCache,
                 started, listRequests, listFailures, upstream, staticCall,
                 dashboard>>

(***************************************************************************)
(* tryCoinMarketCap after its fetch settled.                               *)
(***************************************************************************)
CoinMarketCapResponse(c, env) ==
  LET st == call[c]
      symbols == st.remainingSymbols
      keys == {toUpperCase(s) : s \in Range(symbols)}
  IN
  /\ st.pc = "cmc"
  /\ \E kind \in Kinds(env.failures) :
     \E data \in Bodies(kind, keys, env.cmc, NoEntry) :
       \* data.data?.[upperSymbol]?.[0]?.quote?.USD
       LET body(s) == data[toUpperCase(s)]
       IN call' = [call EXCEPT ![c] =
            IF kind = "ok"
            THEN [AdapterReturns(st, 2, Accepted(symbols, body), FALSE, "ok",
                                 NotAccepted(symbols, body))
                    EXCEPT !.noChange[2] = WithoutChange(symbols, body)]
            ELSE AdapterReturns(st, 2, EmptyResult, TRUE, kind, {})]
  /\ UNCHANGED <<COINMARKETCAP_API_KEY, KAIKO_API_KEY, coinGeckoListCache,
                 started, listRequests, listFailures, upstream, staticCall,
                 dashboard>>

(***************************************************************************)
(* tryCryptoCompare after its fetch settled.                               *)
(***************************************************************************)
CryptoCompareResponse(c, env) ==
  LET st == call[c]
      symbols == st.remainingSymbols
      keys == {toUpperCase(s) : s \in Range(symbols)}
  IN
  /\ st.pc = "cc"
  /\ \E kind \in Kinds(env.failures) :
     \E RAW \in Bodies(kind, keys, env.cc, Undefined) :
       \* data.RAW[upperSymbol]?.USD?.PRICE (a body without RAW gives no
       \* price at all); usd_7d_change is the literal 0
       LET body(s) == [price |-> RAW[toUpperCase(s)], change |-> Num(0)]
       IN call' = [call EXCEPT ![c] =
            IF kind = "ok"
            THEN AdapterReturns(st, 3, Accepted(symbols, body), FALSE, "ok",
                                NotAccepted(symbols, body))
            ELSE AdapterReturns(st, 3, EmptyResult, TRUE, kind, {})]
  /\ UNCHANGED <<COINMARKETCAP_API_KEY, KAIKO_API_KEY, coinGeckoListCache,
                 started, listRequests, listFailures, upstream, staticCall,
                 dashboard>>

\* variant: written `if (!response.ok) throw`, as in the other adapters
LeavesLoopOnStatus(kind) == kind # "ok"

\* tryKaiko: a rejected fetch or response.json() throws out of the for loop;
\* a non-success status does not (`if (response.ok) { ... }` has no else)
LeavesLoop(kind) == kind \in {"network", "body"}

(***************************************************************************)
(* tryKaiko after the fetch for symbols[i] settled: one request per        *)
(* symbol, each awaited before the next is issued.                         *)
(***************************************************************************)
KaikoResponse(c, env) ==
  LET st == call[c]
      symbols == st.remainingSymbols
      symbol == symbols[st.i]
      \* the loop moves on to the next symbol, or ends and prices is returned
      Next4(prices, bad, ok) ==
        LET answered == IF ok THEN st.answered \cup {4} ELSE st.answered
        IN IF st.i < Len(symbols)
           THEN \* the request for the next symbol
                [st EXCEPT !.i = @ + 1, !.prices = prices, !.badPrice[4] = bad,
                           !.answered = answered,
                           !.requested[4] = Append(@, toLowerCase(symbols[st.i + 1]))]
           ELSE AdapterReturns([st EXCEPT !.answered = answered], 4, prices, FALSE,
                               IF 4 \in answered THEN "ok" ELSE "status", bad)
  IN
  /\ st.pc = "kaiko"
  /\ \E kind \in Kinds(env.failures) :
     \E v \in (IF kind = "ok" THEN env.kaiko ELSE {Undefined}) :
       \* price = parseFloat(data?.data?.[0]?.price)
       LET price == parseFloat(v)
       IN call' = [call EXCEPT ![c] =
            CASE kind = "ok" ->
                   IF IsPositive(price)
                   THEN Next4(ObjectAssign(st.prices,
                                [s \in {symbol} |-> PriceData(price, Num(0))]),
                              st.badPrice[4], TRUE)
                   ELSE Next4(st.prices, st.badPrice[4] \cup {symbol}, TRUE)
              [] LeavesLoop(kind) ->
                   \* fetch or response.json() rejects: the loop is left for
                   \* the catch block
                   [AdapterReturns(st, 4, st.prices, TRUE, kind, st.badPrice[4])
                      EXCEPT !.kaikoFailed = @ \cup {symbol}]
              [] OTHER ->
                   \* !response.ok: nothing is done for this symbol
                   [Next4(st.prices, st.badPrice[4], FALSE)
                      EXCEPT !.kaikoFailed = @ \cup {symbol}]]
  /\ UNCHANGED <<COINMARKETCAP_API_KEY, KAIKO_API_KEY, coinGeckoListCache,
                 started, listRequests, listFailures, upstream, staticCall,
                 dashboard>>

(***************************************************************************)
(* The caller has taken the result of a finished call.                     *)
(***************************************************************************)
Return(c) ==
  /\ call[c].pc = "done"
  /\ call' = [call EXCEPT ![c] = IdleCall]
  /\ UNCHANGED <<COINMARKETCAP_API_KEY, KAIKO_API_KEY, coinGeckoListCache,
                 started, listRequests, listFailures, upstream, staticCall,
                 dashboard>>

(***************************************************************************)
(* One fetchCryptoPrices call in a fresh process, with every input of at   *)
(* most MaxLen symbols and every upstream answer.                          *)
(***************************************************************************)
CallEnv ==
  [inputs |-> Inputs, maxCalls |-> 1, lists |-> CoinLists, failures |-> Failures,
   markets |-> Entries, cmc |-> Entries, cc |-> PriceVals, kaiko |-> PriceVals]

Next ==
  \E c \in {1} :
    \/ Start(c, CallEnv)
    \/ CoinListResponse(c, CallEnv)
    \/ MarketsResponse(c, CallEnv)
    \/ Continue(c)
    \/ CoinMarketCapResponse(c, CallEnv)
    \/ CryptoCompareResponse(c, CallEnv)
    \/ KaikoResponse(c, CallEnv)
    \/ Return(c)

Spec == Init /\ [][Next]_vars

(***************************************************************************)
(* The same call under the scheduling the runtime guarantees: once the     *)
(* awaited adapter has returned, the continuation of fetchCryptoPrices is  *)
(* run.  Nothing bounds the time a fetch takes to settle: every fetch is   *)
(* called without an AbortSignal, so no response step is ever forced.      *)
(***************************************************************************)
SpecScheduled == Spec /\ WF_vars(Continue(1))

(***************************************************************************)
(* A process lifetime: up to MaxCalls fetchCryptoPrices calls, one after   *)
(* the other or overlapping (two may be in flight at a time), sharing      *)
(* coinGeckoListCache.  Inputs and answers are drawn from smaller sets:    *)
(* only CoinGecko ever has a price.                                        *)
(***************************************************************************)
ProcessEnv ==
  [inputs |-> {<<>>, <<"BTC">>, <<"ETH">>}, maxCalls |-> MaxCalls,
   lists |-> {<<Bitcoin>>, <<Bitcoin, Ethereum>>}, failures |-> {"network"},
   markets |-> [price : {Undefined, Num(5)}, change : {Undefined}],
   cmc |-> {NoEntry}, cc |-> {Undefined}, kaiko |-> {Undefined}]

NextProcess ==
  \E c \in Calls :
    \/ Start(c, ProcessEnv)
    \/ CoinListResponse(c, ProcessEnv)
    \/ MarketsResponse(c, ProcessEnv)
    \/ Continue(c)
    \/ CoinMarketCapResponse(c, ProcessEnv)
    \/ CryptoCompareResponse(c, ProcessEnv)
    \/ KaikoResponse(c, ProcessEnv)
    \/ Return(c)

SpecProcess == Init /\ [][NextProcess]_vars

(***************************************************************************)
(* A process lifetime against upstream data that does not change: the      *)
(* coin list and what each provider holds about an asset are chosen once,  *)
(* and every request is answered from them.  The calls, each slot with its *)
(* own input, run one after the other or overlap.                          *)
(***************************************************************************)
UpstreamInputs == {<<"BTC">>, <<"ETH", "BTC">>, <<"btc", "BTC">>}

Upstreams ==
  [fixed : {TRUE},
   inputs : [Calls -> UpstreamInputs],
   list : CoinLists,
   markets : [price : {Undefined, Num(5)}, change : {Undefined, Num(-1)}],
   cmc : [price : {Undefined, Num(7)}, change : {Undefined}],
   cc : {Undefined, Num(5)},
   kaiko : {Undefined, NumStr(7)}]

InitUpstream ==
  /\ COINMARKETCAP_API_KEY \in BOOLEAN
  /\ KAIKO_API_KEY \in BOOLEAN
  /\ coinGeckoListCache = NullCache
  /\ call = [c \in Calls |-> IdleCall]
  /\ started = 0
  /\ listRequests = 0
  /\ listFailures = 0
  /\ upstream \in Upstreams
  /\ staticCall = IdleStatic
  /\ dashboard = Mounted

UpstreamEnv(c) ==
  [inputs |-> {upstream.inputs[c]}, maxCalls |-> MaxCalls,
   lists |-> {upstream.list}, failures |-> {},
   markets |-> {upstream.markets}, cmc |-> {upstream.cmc},
   cc |-> {upstream.cc}, kaiko |-> {upstream.kaiko}]

NextUpstream ==
  \E c \in Calls :
    \/ Start(c, UpstreamEnv(c))
    \/ CoinListResponse(c, UpstreamEnv(c))
    \/ MarketsResponse(c, UpstreamEnv(c))
    \/ Continue(c)
    \/ CoinMarketCapResponse(c, UpstreamEnv(c))
    \/ CryptoCompareResponse(c, UpstreamEnv(c))
    \/ KaikoResponse(c, UpstreamEnv(c))
    \/ Return(c)

SpecUpstream == InitUpstream /\ [][NextUpstream]_vars

(***************************************************************************)
(* The static-map fetchCryptoPrices: one CoinGecko /simple/price request   *)
(* for the symbols found in symbolToIdMap, no fallback.                    *)
(***************************************************************************)
\* symbolToIdMap, restricted to the symbols of the model
symbolToIdMap == [s \in {"BTC", "ETH"} |-> IF s = "BTC" THEN "bitcoin" ELSE "ethereum"]

\* the symbols a caller may pass: XYZ is in no map
StaticSymbols == {"BTC", "btc", "ETH", "XYZ"}
StaticInputs == SeqsUpTo(StaticSymbols, MaxLen)

\* the ids a /simple/price body may hold, requested or not, and what it
\* holds for one
StaticIds == {"bitcoin", "ethereum", "solana"}
StaticQuotes == {PriceData(Num(5), Num(-1)), PriceData(Num(0), Num(0))}
StaticBodies == UNION {[ids -> StaticQuotes] : ids \in SUBSET StaticIds}

\* the symbols for which symbolToIdMap[symbol.toUpperCase()] is defined
InStaticMap(symbols) ==
  SelectSeq(symbols, LAMBDA s : toUpperCase(s) \in DOMAIN symbolToIdMap)

\* assetSymbols.map(...).filter(id => id !== null)
StaticCoingeckoIds(symbols) ==
  LET m == InStaticMap(symbols)
  IN [j \in 1..Len(m) |-> symbolToIdMap[toUpperCase(m[j])]]

\* idToSymbolMap[id] = symbol, the later symbol overwriting the earlier
StaticIdToSymbolMap(symbols) ==
  LET m == InStaticMap(symbols)
      ids == StaticCoingeckoIds(symbols)
  IN [id \in Range(ids) |->
        m[CHOOSE j \in 1..Len(m) :
            /\ ids[j] = id
            /\ \A h \in 1..Len(m) : ids[h] = id => h <= j]]

\* variant: the result is keyed by the CoinGecko id
ResultKeyIsId(idToSymbolMap, id) == id

\* `result[symbol] = data[id]` with symbol = idToSymbolMap[id]
ResultKey(idToSymbolMap, id) == idToSymbolMap[id]

\* `for (const id in data) { if (symbol) result[symbol] = data[id] }`
StaticResult(idToSymbolMap, data) ==
  LET ids == DOMAIN data \cap DOMAIN idToSymbolMap
      idOf(key) == CHOOSE id \in ids : ResultKey(idToSymbolMap, id) = key
  IN [key \in {ResultKey(idToSymbolMap, id) : id \in ids} |-> data[idOf(key)]]

\* variant: the catch block swallows the error
ThrowNothing(error) == FALSE

\* the catch block: console.error, then `throw error`
ThrowError(error) == error

\* from the call to the await of fetch, or to an early `return {}`
StaticStart ==
  /\ staticCall.pc = "idle"
  /\ \E assetSymbols \in StaticInputs :
       LET ids == StaticCoingeckoIds(assetSymbols)
           st == [IdleStatic EXCEPT !.assetSymbols = assetSymbols]
       IN staticCall' =
            IF Len(assetSymbols) = 0 \/ Len(ids) = 0
            THEN [st EXCEPT !.pc = "done", !.result = "returned"]
            ELSE [st EXCEPT !.pc = "fetch", !.requests = 1,
                            !.coingeckoIds = ids,
                            !.idToSymbolMap = StaticIdToSymbolMap(assetSymbols)]
  /\ UNCHANGED <<COINMARKETCAP_API_KEY, KAIKO_API_KEY, coinGeckoListCache, call,
                 started, listRequests, listFailures, upstream, dashboard>>

\* after the fetch settled: the mapping is built and returned, or the error
\* is logged and thrown again
StaticResponse ==
  /\ staticCall.pc = "fetch"
  /\ \E kind \in Kinds(Failures) :
     \E data \in (IF kind = "ok" THEN StaticBodies ELSE {EmptyResult}) :
       staticCall' =
         IF kind = "ok"
         THEN [staticCall EXCEPT !.pc = "done", !.outcome = "ok",
                                 !.result = "returned", !.data = data,
                                 !.value = StaticResult(staticCall.idToSymbolMap, data)]
         ELSE [staticCall EXCEPT !.pc = "done", !.outcome = kind,
                                 !.logged = TRUE,
                                 !.result = IF ThrowError(TRUE) THEN "threw"
                                            ELSE "returned"]
  /\ UNCHANGED <<COINMARKETCAP_API_KEY, KAIKO_API_KEY, coinGeckoListCache, call,
                 started, listRequests, listFailures, upstream, dashboard>>

NextStatic == StaticStart \/ StaticResponse

SpecStatic == Init /\ [][NextStatic]_vars

(***************************************************************************)
(* The Dashboard component: calculateMetrics, run once by the effect.      *)
(* Amounts are whole numbers; the realised cost, the P&L figures and the   *)
(* order of the positions are left out of the state.                       *)
(***************************************************************************)
\* rows of the transactions table; asset "" stands for null
Tx(type, value, asset, quantity) ==
  [transaction_type |-> type, transaction_value_usd |-> value,
   asset |-> asset, asset_quantity |-> quantity]

Transactions ==
  {Tx("DEPOSIT", 2, "", 0), Tx("WITHDRAWAL", 1, "", 0),
   Tx("BUY", 1, "BTC", 1), Tx("BUY", 1, "ETH", 1), Tx("SELL", 1, "BTC", 1)}

TransactionTables == SeqsUpTo(Transactions, MaxLen)

\* the value of f at a, 0 when f has no entry for a
At(f, a) == IF a \in DOMAIN f THEN f[a] ELSE 0

\* one round of `for (const tx of transactions)`
Aggregate1(acc, tx) ==
  LET type == tx.transaction_type
      a == tx.asset
      q == tx.asset_quantity
      cash == CASE type \in {"DEPOSIT", "SELL"} -> acc.cashBalance + tx.transaction_value_usd
                [] type \in {"WITHDRAWAL", "BUY"} -> acc.cashBalance - tx.transaction_value_usd
                [] OTHER -> acc.cashBalance
      owned == At(acc.quantity, a)
  IN IF a # "" /\ q > 0
     THEN [cashBalance |-> cash,
           assetIdsToFetch |-> IF a \in Range(acc.assetIdsToFetch)
                               THEN acc.assetIdsToFetch
                               ELSE Append(acc.assetIdsToFetch, a),
           quantity |-> [x \in DOMAIN acc.quantity \cup {a} |->
                           IF x # a THEN acc.quantity[x]
                           ELSE CASE type = "BUY" -> owned + q
                                  [] type = "SELL" /\ owned > 0 -> owned - q
                                  [] OTHER -> owned],
           held |-> [x \in DOMAIN acc.held \cup {a} |->
                       IF x # a THEN acc.held[x]
                       ELSE CASE type = "BUY" -> At(acc.held, a) + q
                              [] type = "SELL" -> At(acc.held, a) - q
                              [] OTHER -> At(acc.held, a)]]
     ELSE [acc EXCEPT !.cashBalance = cash]

\* the aggregation loop over the whole table
RECURSIVE Aggregate(_)
Aggregate(transactions) ==
  IF transactions = <<>>
  THEN [cashBalance |-> 0, assetIdsToFetch |-> <<>>,
        quantity |-> [a \in {} |-> 0], held |-> [a \in {} |-> 0]]
  ELSE Aggregate1(Aggregate(SubSeq(transactions, 1, Len(transactions) - 1)),
                  transactions[Len(transactions)])

\* currentMarketValue: the sum of quantity * price over assetIdsToFetch
RECURSIVE MarketValue(_, _, _)
MarketValue(ids, quantity, prices) ==
  IF ids = <<>> THEN 0
  ELSE At(quantity, ids[1]) * At(prices, ids[1])
         + MarketValue(Tail(ids), quantity, prices)

\* variant: the catch block leaves the error state as it was
SetErrorNothing(d, text) == d

\* the catch block: setError(err instanceof Error ? err.message : "...")
SetError(d, text) == [d EXCEPT !.error = Message(text)]

\* variant: there is no finally block
FinallyNothing(d) == d

\* the finally block: setLoading(false)
Finally(d) == [d EXCEPT !.loading = FALSE, !.pc = "done"]

\* a step of the try block threw: catch, then finally
Caught(d, step, text) ==
  Finally(SetError([d EXCEPT !.threw = step], text))

\* the effect calls calculateMetrics: setLoading(true), setError(null), and
\* the transactions query is awaited
CalculateMetrics ==
  /\ dashboard.pc = "mounted"
  /\ dashboard' = [dashboard EXCEPT !.pc = "transactions", !.loading = TRUE,
                                    !.error = Null]
  /\ UNCHANGED <<COINMARKETCAP_API_KEY, KAIKO_API_KEY, coinGeckoListCache, call,
                 started, listRequests, listFailures, upstream, staticCall>>

\* the transactions query settled: it threw, answered with an error or with
\* no data, or gave the table, which is aggregated before fetchCryptoPrices
\* is awaited
TransactionsResponse ==
  /\ dashboard.pc = "transactions"
  /\ \E kind \in {"ok", "error", "nodata", "rejected"} :
     \E transactions \in (IF kind = "ok" THEN TransactionTables ELSE {<<>>}) :
       dashboard' =
         CASE kind = "ok" ->
                LET agg == Aggregate(transactions)
                IN [dashboard EXCEPT !.pc = "prices",
                                     !.cashBalance = agg.cashBalance,
                                     !.assetIdsToFetch = agg.assetIdsToFetch,
                                     !.quantity = agg.quantity,
                                     !.held = agg.held]
           [] kind = "nodata" ->
                Caught(dashboard, "transactions", "No transactions found.")
           [] OTHER -> Caught(dashboard, "transactions", kind)
  /\ UNCHANGED <<COINMARKETCAP_API_KEY, KAIKO_API_KEY, coinGeckoListCache, call,
                 started, listRequests, listFailures, upstream, staticCall>>

\* fetchCryptoPrices settled: it threw, or gave prices for some of the
\* assets (a missing price counts as 0), from which
\* setMetrics and setOpenPositions are called before the profiles query is
\* awaited
PricesResponse ==
  /\ dashboard.pc = "prices"
  /\ \E kind \in {"ok", "rejected"} :
     \E prices \in (IF kind = "ok"
                    THEN UNION {[known -> {0, 5}] :
                                  known \in SUBSET Range(dashboard.assetIdsToFetch)}
                    ELSE {[a \in {} |-> 0]}) :
       dashboard' =
         IF kind = "ok"
         THEN [dashboard EXCEPT
                 !.pc = "profiles",
                 !.metrics = [isNull |-> FALSE,
                              totalValue |-> MarketValue(dashboard.assetIdsToFetch,
                                                         dashboard.quantity, prices)
                                             + dashboard.cashBalance],
                 !.openPositions = {a \in DOMAIN dashboard.held : dashboard.held[a] > 0}]
         ELSE Caught(dashboard, "prices", kind)
  /\ UNCHANGED <<COINMARKETCAP_API_KEY, KAIKO_API_KEY, coinGeckoListCache, call,
                 started, listRequests, listFailures, upstream, staticCall>>

\* the profiles query settled: it threw, answered with an error or with no
\* data, or gave the profiles, whose deposits add up to totalCapitalInvested
ProfilesResponse ==
  /\ dashboard.pc = "profiles"
  /\ \E kind \in {"ok", "error", "nodata", "rejected"} :
     \E totalCapitalInvested \in (IF kind = "ok" THEN {0, 3} ELSE {0}) :
       dashboard' =
         CASE kind = "ok" ->
                Finally([dashboard EXCEPT
                           !.clientOwnership = totalCapitalInvested > 0])
           [] kind = "nodata" ->
                Caught(dashboard, "profiles", "No client profiles found.")
           [] OTHER -> Caught(dashboard, "profiles", kind)
  /\ UNCHANGED <<COINMARKETCAP_API_KEY, KAIKO_API_KEY, coinGeckoListCache, call,
                 started, listRequests, listFailures, upstream, staticCall>>

NextDashboard ==
  \/ CalculateMetrics
  \/ TransactionsResponse
  \/ PricesResponse
  \/ ProfilesResponse

SpecDashboard == Init /\ [][NextDashboard]_vars

(***************************************************************************)
(* Properties.                                                             *)
(***************************************************************************)
\* the call has returned a mapping to its caller
HasReturned(c) == call[c].pc = "done" /\ call[c].result = "returned"

\* the keys the adapters of ranks 1..k returned
ResolvedUpTo(c, k) == UNION {DOMAIN call[c].ret[j] : j \in 1..k}

\* the adapter of rank k is the first that returned an entry for x
FirstToReturn(c, k, x) ==
  /\ x \in DOMAIN call[c].ret[k]
  /\ \A j \in 1..(k - 1) : x \notin DOMAIN call[c].ret[j]

\* the upstream call of rank k failed as a whole: no key, the coin list
\* could not be fetched, or no price request got a successful answer
ProviderFailed(c, k) ==
  /\ call[c].outcome[k] \in Failures \cup {"listfail", "nokey"}
  /\ k \notin call[c].answered

\* C1 (completeness): the keys of the mapping a call returns are exactly the
\* distinct input identifiers, compared as given: none is missing, none is
\* invented.
C1_Completeness ==
  \A c \in Calls :
    HasReturned(c) => DOMAIN call[c].finalPrices = Range(call[c].assetSymbols)

\* a call given a duplicate-free pair returned with one symbol resolved by a
\* provider after an earlier one failed, and the other placeholder-filled
C1_Witness ==
  \E c \in Calls :
    /\ HasReturned(c)
    /\ call[c].assetSymbols = <<"BTC", "ETH">>
    /\ call[c].outcome[1] \in Failures
    /\ "BTC" \in DOMAIN call[c].ret[2]
    /\ call[c].filled = {"ETH"}

\* C2 (priority): the quote a call returns for an identifier is the one
\* returned by the lowest-ranked adapter that returned an entry for it; a
\* later rank never replaces it.
C2_Priority ==
  \A c \in Calls :
    HasReturned(c) =>
      \A k \in Ranks : \A x \in DOMAIN call[c].ret[k] :
        FirstToReturn(c, k, x) => call[c].finalPrices[x] = call[c].ret[k][x]

\* providers 1 and 2 both returned an entry in one call, at different
\* prices, and each identifier kept the quote of the first that returned it
C2_Witness ==
  \E c \in Calls :
    /\ HasReturned(c)
    /\ call[c].assetSymbols = <<"BTC", "ETH">>
    /\ call[c].ret[1] = [s \in {"BTC"} |-> PriceData(Num(5), Num(-1))]
    /\ call[c].ret[2] = [s \in {"ETH"} |-> PriceData(Num(7), Num(0))]
    /\ call[c].finalPrices["BTC"].usd = Num(5)
    /\ call[c].finalPrices["ETH"].usd = Num(7)

\* the sets of keys contributed by the four adapters and by the final
\* placeholder block are pairwise disjoint
Disjoint(c) ==
  /\ \A j, k \in Ranks :
       j # k => DOMAIN call[c].ret[j] \cap DOMAIN call[c].ret[k] = {}
  /\ \A k \in Ranks : call[c].filled \cap DOMAIN call[c].ret[k] = {}

\* a step of a running call keeps every quote already in finalPrices
KeepsQuotes(c) ==
  (call[c].pc # "idle" /\ call'[c].pc # "idle") =>
    \A x \in DOMAIN call[c].finalPrices :
      /\ x \in DOMAIN call'[c].finalPrices
      /\ call'[c].finalPrices[x] = call[c].finalPrices[x]

\* C3 (first writer wins): at every step of a call a quote already in the
\* accumulated result is kept unchanged, and the keys contributed by the
\* different providers and by the placeholder block are pairwise disjoint.
C3_FirstWriterWins ==
  /\ [](\A c \in Calls : Disjoint(c))
  /\ [][\A c \in Calls : KeepsQuotes(c)]_vars

\* provider 1 contributed one key, providers 2 and 3 answered without a
\* usable price and the placeholder block contributed the other key
C3_Witness ==
  \E c \in Calls :
    /\ HasReturned(c)
    /\ call[c].assetSymbols = <<"btc", "ETH">>
    /\ DOMAIN call[c].ret[1] = {"btc"}
    /\ call[c].outcome[2] = "ok"
    /\ call[c].outcome[3] = "ok"
    /\ call[c].filled = {"ETH"}

\* C4 (short circuit): an adapter of rank 2, 3 or 4 is called only when some
\* input identifier has no entry from the ranks before it; when provider 1
\* resolves every identifier, providers 2 to 4 are never called.
C4_ShortCircuit ==
  \A c \in Calls :
    /\ \A k \in 2..4 :
         k \in call[c].invoked =>
           /\ (k - 1) \in call[c].invoked
           /\ Range(call[c].assetSymbols) \ ResolvedUpTo(c, k - 1) # {}
    /\ (call[c].pc = "done" /\ call[c].assetSymbols # <<>>
          /\ DOMAIN call[c].ret[1] = Range(call[c].assetSymbols))
         => call[c].invoked = {1}

\* provider 1 resolved both identifiers and the call returned without
\* calling another provider
C4_Witness ==
  \E c \in Calls :
    /\ HasReturned(c)
    /\ call[c].assetSymbols = <<"ETH", "BTC">>
    /\ DOMAIN call[c].ret[1] = {"BTC", "ETH"}
    /\ call[c].invoked = {1}

\* C5 (graceful degradation): when all four providers fail in a call, the
\* call returns and every requested identifier maps to
\* { usd: 0, usd_7d_change: 0 }.
C5_GracefulDegradation ==
  \A c \in Calls :
    (call[c].pc = "done" /\ \A k \in Ranks : ProviderFailed(c, k)) =>
      /\ call[c].result = "returned"
      /\ \A x \in Range(call[c].assetSymbols) :
           /\ x \in DOMAIN call[c].finalPrices
           /\ call[c].finalPrices[x] = ZeroQuote

\* all four upstream calls failed, each in a different way
C5_Witness ==
  \E c \in Calls :
    /\ call[c].pc = "done"
    /\ call[c].assetSymbols = <<"BTC", "ETH">>
    /\ call[c].outcome = <<"status", "network", "body", "status">>
    /\ call[c].answered = {}

\* C6 (no propagation): whatever fails upstream, no adapter throws to
\* fetchCryptoPrices and a finished call has returned a mapping.
C6_NoPropagation ==
  \A c \in Calls :
    /\ ~call[c].thrown
    /\ call[c].pc = "done" => call[c].result = "returned"

\* a call finished after the list fetch failed and the three other upstream
\* calls failed with a non-success status, a malformed body and a network
\* error
C6_Witness ==
  \E c \in Calls :
    /\ call[c].pc = "done"
    /\ call[c].outcome = <<"listfail", "status", "body", "network">>

\* usd is a number above zero
IsPositiveNumber(v) == v.kind = "number" /\ v.n > 0

\* C7 (invalid-data rejection): no adapter returns an entry whose usd is
\* missing, non-numeric, zero or negative, and an identifier whose parsed
\* price is such a value is not in the adapter's result and is passed to the
\* next provider.
C7_InvalidDataRejection ==
  \A c \in Calls : \A k \in Ranks :
    /\ \A x \in DOMAIN call[c].ret[k] : IsPositiveNumber(call[c].ret[k][x].usd)
    /\ \A x \in call[c].badPrice[k] :
         /\ x \notin DOMAIN call[c].ret[k]
         /\ (k < 4 /\ (call[c].rank > k \/ call[c].pc = "done")) =>
              /\ (k + 1) \in call[c].invoked
              /\ x \in Range(call[c].asked[k + 1])

\* `usd > 0` as JavaScript evaluates it on a returned entry
GreaterThanZero(v) ==
  \/ v.kind = "number" /\ v.n > 0
  \/ v.kind = "numstr" /\ v.n > 0
  \/ v.kind = "true"

ListRequestOnlyOnNullCache ==
  listRequests' # listRequests =>
    /\ coinGeckoListCache.isNull
    /\ listRequests' = listRequests + 1

C10_FailedFetchNotRetried ==
  \A c \in Calls :
    call[c].failuresAtStart >= 1 =>
      /\ call[c].listReqs = 0
      /\ DOMAIN call[c].ret[1] = {}

\* a failed list fetch leaves the cache as it was
FailureKeepsCache ==
  listFailures' # listFailures => coinGeckoListCache' = coinGeckoListCache

\* a call that starts with identifiers while the cache is null fetches the
\* list
StartFetchesOnNullCache ==
  \A c \in Calls :
    (/\ call[c].pc = "idle"
     /\ call'[c].pc # "idle"
     /\ call'[c].asked[1] # <<>>
     /\ coinGeckoListCache.isNull) =>
       /\ call'[c].pc = "list"
       /\ listRequests' = listRequests + 1

\* C10 (amended): a failed list fetch is not retried within the call that
\* issued it, which gets no entry from provider 1, and it leaves the cache as
\* it was; a later call that finds the cache still empty fetches the list
\* again.
C10_FailedFetchRetriedByNextCall ==
  /\ [](\A c \in Calls :
          call[c].outcome[1] = "listfail" =>
            call[c].listReqs = 1 /\ call[c].ret[1] = EmptyResult)
  /\ [][FailureKeepsCache /\ StartFetchesOnNullCache]_vars

\* a call started after a list fetch had failed fetched the list itself and
\* got a price from provider 1
C10_Witness ==
  \E c \in Calls :
    /\ call[c].failuresAtStart >= 1
    /\ call[c].listReqs = 1
    /\ DOMAIN call[c].ret[1] # {}

\* C11 (per-call timeout): every outbound call is bounded, so a call that has
\* started eventually returns even when an upstream never responds.
C11_ResolveEventuallyReturns ==
  \A c \in Calls : (call[c].pc # "idle") ~> (call[c].pc = "done")

\* what the adapter of rank k returns for `symbols` when every request is
\* answered from the upstream data u
AloneReturn(k, symbols, u, cmcKey, kaikoKey) ==
  LET ids == CoingeckoIds(u.list, symbols)
      map == IdToSymbolMap(u.list, symbols)
      hit == SelectSeq(symbols, LAMBDA s : \E id \in Range(ids) : map[id] = s)
      markets(s) == u.markets
      cmc(s) == u.cmc
      cc(s) == [price |-> u.cc, change |-> Num(0)]
      kaiko(s) == [price |-> parseFloat(u.kaiko), change |-> Num(0)]
  IN CASE symbols = <<>> -> EmptyResult
       [] k = 1 -> Accepted(hit, markets)
       [] k = 2 -> IF cmcKey THEN Accepted(symbols, cmc) ELSE EmptyResult
       [] k = 3 -> Accepted(symbols, cc)
       [] OTHER -> IF kaikoKey THEN Accepted(symbols, kaiko) ELSE EmptyResult

\* the mapping a call returns when it runs from rank k on with no other call
\* in the process
RECURSIVE AloneFrom(_, _, _, _, _, _)
AloneFrom(k, finalPrices, remainingSymbols, u, cmcKey, kaikoKey) ==
  IF k > 4 \/ (k > 1 /\ remainingSymbols = <<>>)
  THEN FillRemaining(finalPrices, remainingSymbols)
  ELSE LET merged == ObjectAssign(finalPrices,
                       AloneReturn(k, remainingSymbols, u, cmcKey, kaikoKey))
       IN AloneFrom(k + 1, merged, StillRemaining(remainingSymbols, merged),
                    u, cmcKey, kaikoKey)

Alone(assetSymbols) ==
  AloneFrom(1, EmptyResult, Unique(assetSymbols), upstream,
            COINMARKETCAP_API_KEY, KAIKO_API_KEY)

\* a step that changes one call leaves the accumulated result and the
\* remaining set of every other call as they were
OtherCallsUntouched ==
  \A c, d \in Calls :
    (c # d /\ call'[c] # call[c]) =>
      /\ call'[d].finalPrices = call[d].finalPrices
      /\ call'[d].remainingSymbols = call[d].remainingSymbols

\* C12 (concurrent calls are safe): whatever the overlap of the calls of a
\* process, the mapping a call returns is the one it would return running
\* alone against the same upstream data, and no step of a call changes the
\* accumulated result or the remaining set of another call.
C12_ConcurrentCallsSafe ==
  /\ [](\A c \in Calls :
          HasReturned(c) => call[c].finalPrices = Alone(call[c].assetSymbols))
  /\ [][OtherCallsUntouched]_vars

\* two calls with different inputs overlapped (each fetched the coin list
\* itself) and both returned, one identifier resolved by provider 1 and the
\* other by a later provider
C12_Witness ==
  /\ HasReturned(1) /\ HasReturned(2)
  /\ call[1].assetSymbols = <<"ETH", "BTC">>
  /\ call[2].assetSymbols = <<"btc", "BTC">>
  /\ call[1].listReqs = 1 /\ call[2].listReqs = 1
  /\ DOMAIN call[1].ret[1] = {"BTC"}
  /\ DOMAIN call[1].ret[2] = {"ETH"}
  /\ DOMAIN call[2].ret[1] = {"BTC"}
  /\ DOMAIN call[2].ret[2] = {"btc"}

\* C15 (idempotence): two calls of a process with the same input, against
\* upstream data that does not change, return the same mapping whether they
\* found the coin-list cache empty or populated.
C15_Idempotence ==
  \A c, d \in Calls :
    (HasReturned(c) /\ HasReturned(d)
       /\ call[c].assetSymbols = call[d].assetSymbols)
      => call[c].finalPrices = call[d].finalPrices

\* two returned calls with the same input: one fetched the coin list, the
\* other found it cached, and both translated and priced the identifier
C15_Witness ==
  \E c, d \in Calls :
    /\ HasReturned(c) /\ HasReturned(d)
    /\ call[c].assetSymbols = <<"ETH", "BTC">>
    /\ call[d].assetSymbols = <<"ETH", "BTC">>
    /\ call[c].listReqs = 1
    /\ call[d].listReqs = 0
    /\ "BTC" \in DOMAIN call[d].ret[1]
    /\ call[d].finalPrices["BTC"].usd = Num(5)

\* the adapter of rank k was called without its key: it returned an empty
\* mapping and issued no request
SkippedWithoutRequest(c, k) ==
  /\ call[c].outcome[k] = "nokey"
  /\ call[c].requested[k] = <<>>
  /\ call[c].ret[k] = EmptyResult
  /\ call[c].pc \notin {"cmc", "kaiko"} \/ call[c].rank # k

\* C13 (configuration-absent skip): an adapter of rank 2 or 4 called while
\* its key is absent returns an empty mapping without issuing a request, and
\* the call goes on: rank 3 is called with the same identifiers after rank 2,
\* and the call returns after rank 4.
C13_ConfigAbsentSkip ==
  \A c \in Calls :
    /\ (2 \in call[c].invoked /\ ~COINMARKETCAP_API_KEY) =>
         /\ SkippedWithoutRequest(c, 2)
         /\ (call[c].rank > 2 \/ call[c].pc = "done") =>
              /\ 3 \in call[c].invoked
              /\ call[c].asked[3] = call[c].asked[2]
    /\ (4 \in call[c].invoked /\ ~KAIKO_API_KEY) =>
         /\ SkippedWithoutRequest(c, 4)
         /\ call[c].pc = "done" => call[c].result = "returned"

\* both keys are absent: ranks 2 and 4 were skipped, rank 3 in between
\* resolved one identifier and the other was left to the placeholder
C13_Witness ==
  \E c \in Calls :
    /\ HasReturned(c)
    /\ ~COINMARKETCAP_API_KEY /\ ~KAIKO_API_KEY
    /\ call[c].assetSymbols = <<"BTC", "ETH">>
    /\ call[c].outcome[2] = "nokey"
    /\ call[c].outcome[4] = "nokey"
    /\ call[c].outcome[3] = "ok"
    /\ DOMAIN call[c].ret[3] = {"ETH"}
    /\ call[c].filled = {"BTC"}

ContinuesAfter(c, k) ==
  IF k < 4
  THEN (call[c].rank > k \/ call[c].pc = "done") =>
         /\ (k + 1) \in call[c].invoked
         /\ call[c].asked[k + 1] = call[c].asked[k]
  ELSE call[c].pc = "done" => call[c].result = "returned"

NoRepeat(seq) ==
  \A i, j \in 1..Len(seq) : seq[i] = seq[j] => i = j

\* C16 as stated: identifiers equal after case normalization collapse to one
\* lookup, so no provider is asked for the same asset twice in a call
C16_CaseNormalizedCollapse ==
  \A c \in Calls :
    /\ NoRepeat(UpperCased(call[c].asked[1]))
    /\ \A k \in Ranks : NoRepeat(call[c].requested[k])

\* C16 (amended): identifiers are the same when they are the same string:
\* exact duplicates in the input collapse to one lookup, so each identifier
\* as given is passed to a provider, and named in its requests, at most once
\* per call; identifiers that differ only in letter case stay distinct.
C16_ExactDuplicatesCollapse ==
  \A c \in Calls :
    call[c].pc # "idle" =>
      /\ Range(call[c].asked[1]) = Range(call[c].assetSymbols)
      /\ \A k \in Ranks :
           /\ NoRepeat(call[c].asked[k])
           /\ Len(call[c].requested[k]) <= Len(call[c].asked[k])
      /\ \A k \in 2..3 :
           call[c].requested[k] \in {<<>>, UpperCased(call[c].asked[k])}
      /\ \A j \in 1..Len(call[c].requested[4]) :
           call[c].requested[4][j] = toLowerCase(call[c].asked[4][j])

\* the input named BTC twice: provider 1 was asked once, for one coin id, and
\* the mapping has the one entry
C16_Witness ==
  \E c \in Calls :
    /\ HasReturned(c)
    /\ call[c].assetSymbols = <<"BTC", "BTC">>
    /\ call[c].asked[1] = <<"BTC">>
    /\ call[c].requested[1] = <<"bitcoin">>
    /\ DOMAIN call[c].finalPrices = {"BTC"}

\* the adapters that were called and have not returned yet
InFlight(c) == {k \in call[c].invoked : call[c].outcome[k] = "none"}

\* C17 (strict sequential rank order): the adapters of a call are called in
\* the order 1, 2, 3, 4; rank k+1 is called only after rank k has returned
\* and its result has been merged into the accumulated result, and at most
\* one adapter of a call is in flight.
C17_SequentialRankOrder ==
  \A c \in Calls :
    /\ \E n \in 0..4 : call[c].invoked = 1..n
    /\ \A k \in 2..4 :
         k \in call[c].invoked =>
           /\ call[c].outcome[k - 1] # "none"
           /\ \A x \in DOMAIN call[c].ret[k - 1] :
                /\ x \in DOMAIN call[c].finalPrices
                /\ call[c].finalPrices[x] = call[c].ret[k - 1][x]
    /\ Cardinality(InFlight(c)) <= 1
    /\ call[c].pc \in {"list", "markets", "cmc", "cc", "kaiko"}
         => InFlight(c) = {call[c].rank} \/ (InFlight(c) = {1} /\ call[c].rank = 0)

\* all four providers were called in one call, rank 3 having resolved one
\* identifier before Kaiko was called for the other
C17_Witness ==
  \E c \in Calls :
    /\ call[c].pc = "kaiko"
    /\ call[c].invoked = 1..4
    /\ call[c].assetSymbols = <<"BTC", "ETH">>
    /\ DOMAIN call[c].ret[3] = {"BTC"}
    /\ call[c].asked[4] = <<"ETH">>

\* the deduplicated input without what ranks 1..k-1 returned
Residual(c, k) ==
  SelectSeq(Unique(call[c].assetSymbols),
            LAMBDA s : s \notin ResolvedUpTo(c, k - 1))

\* C18 (residual-only input): the identifiers passed to the adapter of rank k
\* are exactly the deduplicated input minus the identifiers the adapters of
\* ranks 1..k-1 returned, which are the keys of the accumulated result; no
\* adapter is passed an identifier an earlier one resolved.
C18_ResidualOnlyInput ==
  \A c \in Calls : \A k \in call[c].invoked :
    /\ call[c].asked[k] = Residual(c, k)
    /\ InFlight(c) = {k} =>
         /\ DOMAIN call[c].finalPrices = ResolvedUpTo(c, k - 1)
         /\ Range(call[c].asked[k]) \cap DOMAIN call[c].finalPrices = {}

\* provider 1 resolved BTC, and providers 2 and 3 were passed ETH alone
C18_Witness ==
  \E c \in Calls :
    /\ call[c].assetSymbols = <<"BTC", "ETH">>
    /\ call[c].asked[1] = <<"BTC", "ETH">>
    /\ DOMAIN call[c].ret[1] = {"BTC"}
    /\ call[c].asked[2] = <<"ETH">>
    /\ call[c].outcome[2] = "ok"
    /\ call[c].asked[3] = <<"ETH">>

\* C19 (neutral 7-day default): every entry returned by CryptoCompare or
\* Kaiko has usd_7d_change = 0, and an identifier CoinGecko or CoinMarketCap
\* answered without change data is returned with usd_7d_change = 0 and its
\* price (usd > 0).
C19_NeutralChangeDefault ==
  \A c \in Calls :
    /\ \A k \in 3..4 : \A x \in DOMAIN call[c].ret[k] :
         call[c].ret[k][x].usd_7d_change = Num(0)
    /\ \A x \in DOMAIN call[c].prices :
         call[c].rank \in 3..4 => call[c].prices[x].usd_7d_change = Num(0)
    /\ \A k \in 1..2 : \A x \in call[c].noChange[k] :
         /\ x \in DOMAIN call[c].ret[k]
         /\ call[c].ret[k][x].usd_7d_change = Num(0)
         /\ GreaterThanZero(call[c].ret[k][x].usd)

\* CoinGecko answered for BTC without change data and Kaiko priced ETH: both
\* are returned with usd_7d_change = 0
C19_Witness ==
  \E c \in Calls :
    /\ HasReturned(c)
    /\ call[c].noChange[1] = {"BTC"}
    /\ call[c].finalPrices["BTC"] = PriceData(Num(5), Num(0))
    /\ "ETH" \in DOMAIN call[c].ret[4]
    /\ call[c].finalPrices["ETH"] = PriceData(Num(7), Num(0))

\* the requested symbols that have a directory entry whose symbol is the
\* requested symbol lowercased
HaveEntry(coinList, symbols) ==
  SelectSeq(symbols, LAMBDA s :
    \E j \in 1..Len(coinList) : coinList[j].symbol = toLowerCase(s))

\* the request names, in order, one directory id for each matched symbol
NamesMatched(coinList, matched, ids) ==
  /\ Len(ids) = Len(matched)
  /\ \A j \in 1..Len(ids) :
       \E h \in 1..Len(coinList) :
         /\ coinList[h].symbol = toLowerCase(matched[j])
         /\ coinList[h].id = ids[j]

\* C20 (identifier translation): once tryCoinGecko has the coin list, it
\* issues its price request for exactly the requested symbols that have a
\* directory entry with the lowercased symbol, and none when there is no such
\* symbol; it returns entries only for those symbols, keyed by the symbol as
\* given, and the others are dropped without error and stay remaining.
C20_IdentifierTranslation ==
  \A c \in Calls :
    (call[c].pc \notin {"idle", "list"} /\ call[c].asked[1] # <<>>) =>
      LET matched == HaveEntry(call[c].coinList, call[c].asked[1])
      IN /\ NamesMatched(call[c].coinList, matched, call[c].requested[1])
         /\ matched = <<>> =>
              /\ call[c].outcome[1] \in {"nomatch", "listfail"}
              /\ call[c].ret[1] = EmptyResult
         /\ DOMAIN call[c].ret[1] \subseteq Range(matched)
         /\ ~call[c].thrown
         /\ 2 \in call[c].invoked =>
              Range(call[c].asked[1]) \ Range(matched) \subseteq Range(call[c].asked[2])

\* the directory lists bitcoin only: the price request named it alone, BTC
\* was returned under the caller's spelling and ETH went on to provider 2
C20_Witness ==
  \E c \in Calls :
    /\ call[c].assetSymbols = <<"ETH", "BTC">>
    /\ call[c].coinList = <<Bitcoin>>
    /\ call[c].requested[1] = <<"bitcoin">>
    /\ DOMAIN call[c].ret[1] = {"BTC"}
    /\ call[c].asked[2] = <<"ETH">>

\* a call given an empty array has issued no request, called provider 1
\* alone and, once finished, returned {} without the diagnostic
EmptyInputIsQuiet(c) ==
  (call[c].pc # "idle" /\ call[c].assetSymbols = <<>>) =>
    /\ call[c].listReqs = 0
    /\ \A k \in Ranks : call[c].requested[k] = <<>>
    /\ call[c].invoked = {1}
    /\ call[c].pc \in {"returned", "done"}
    /\ ~call[c].diag
    /\ call[c].pc = "done" =>
         call[c].result = "returned" /\ call[c].finalPrices = EmptyResult

\* a step of a call given an empty array leaves the cache and the number
\* of list requests as they were
EmptyInputKeepsCache ==
  \A c \in Calls :
    (call'[c] # call[c] /\ call'[c].pc # "idle" /\ call'[c].assetSymbols = <<>>) =>
      /\ coinGeckoListCache' = coinGeckoListCache
      /\ listRequests' = listRequests

\* C21 (empty input): a call given an empty array returns an empty mapping,
\* issues no request (neither the coin list nor a price request), leaves the
\* coin-list cache unchanged and emits no total-failure diagnostic.
C21_EmptyInput ==
  /\ [](\A c \in Calls : EmptyInputIsQuiet(c))
  /\ [][EmptyInputKeepsCache]_vars

\* a call given an empty array returned {} after an earlier call populated
\* the cache: the cache is as that call left it and one list request was
\* issued in all
C21_Witness ==
  \E c \in Calls :
    /\ HasReturned(c)
    /\ call[c].assetSymbols = <<>>
    /\ call[c].finalPrices = EmptyResult
    /\ coinGeckoListCache = Cached(<<Bitcoin>>)
    /\ listRequests = 1
    /\ started = 2

\* the identifiers that hold the placeholder in the returned mapping
PlaceholderFilled(c) ==
  {x \in DOMAIN call[c].finalPrices : call[c].finalPrices[x] = ZeroQuote}

\* C22 (total-failure diagnostic): a call emits the "Total System Failure"
\* diagnostic exactly when its returned mapping holds a placeholder, and the
\* identifiers it reports, each once, are exactly the placeholder-filled
\* ones; nothing is emitted before the call finishes.
C22_TotalFailureDiagnostic ==
  \A c \in Calls :
    /\ HasReturned(c) =>
         /\ call[c].diag <=> PlaceholderFilled(c) # {}
         /\ Range(call[c].reported) = PlaceholderFilled(c)
         /\ NoRepeat(call[c].reported)
    /\ call[c].pc # "done" => ~call[c].diag /\ call[c].reported = <<>>

\* provider 1 resolved BTC, no provider had ETH: the diagnostic reported
\* ETH alone
C22_Witness ==
  \E c \in Calls :
    /\ HasReturned(c)
    /\ call[c].assetSymbols = <<"BTC", "ETH">>
    /\ call[c].diag
    /\ call[c].reported = <<"ETH">>
    /\ call[c].finalPrices["BTC"].usd = Num(5)
    /\ call[c].finalPrices["ETH"] = ZeroQuote

\* what tryKaiko holds or has returned
KaikoEntries(c) ==
  IF call[c].rank = 4 /\ call[c].pc = "kaiko" THEN call[c].prices ELSE call[c].ret[4]

\* the requests of tryKaiko name, in order and once each, the first
\* identifiers it was passed
OneRequestEach(c) ==
  /\ NoRepeat(call[c].asked[4])
  /\ Len(call[c].requested[4]) <= Len(call[c].asked[4])
  /\ \A j \in 1..Len(call[c].requested[4]) :
       call[c].requested[4][j] = toLowerCase(call[c].asked[4][j])

\* a step of tryKaiko in which a request fails keeps the entries collected
\* so far: an exception returns them at once, without a further request
KaikoFailureKeepsEntries ==
  \A c \in Calls :
    (call[c].pc = "kaiko" /\ call'[c].kaikoFailed # call[c].kaikoFailed) =>
      IF call'[c].outcome[4] \in {"network", "body"}
      THEN /\ call'[c].pc = "returned"
           /\ call'[c].ret[4] = call[c].prices
           /\ call'[c].requested[4] = call[c].requested[4]
           /\ ~call'[c].thrown
      ELSE /\ call'[c].prices = call[c].prices
           /\ call[c].i < Len(call[c].asked[4]) =>
                /\ call'[c].pc = "kaiko"
                /\ Len(call'[c].requested[4]) = Len(call[c].requested[4]) + 1

\* C23 (Kaiko per-identifier isolation): tryKaiko issues at most one
\* request per identifier; it returns entries only for identifiers whose
\* request got a success status and a parsed price > 0; a non-success status
\* skips that identifier only, every identifier still being queried; an
\* exception on one request ends the querying, the identifiers after it get
\* no request, and the entries collected before it are returned.
C23_KaikoIsolation ==
  /\ [](\A c \in Calls :
          /\ OneRequestEach(c)
          /\ \A x \in DOMAIN KaikoEntries(c) :
               /\ x \notin call[c].kaikoFailed \cup call[c].badPrice[4]
               /\ IsPositiveNumber(KaikoEntries(c)[x].usd)
          /\ call[c].outcome[4] \in {"ok", "status"} =>
               Len(call[c].requested[4]) = Len(call[c].asked[4])
          /\ call[c].outcome[4] \in {"network", "body"} =>
               call[c].asked[4][Len(call[c].requested[4])] \in call[c].kaikoFailed)
  /\ [][KaikoFailureKeepsEntries]_vars

\* Kaiko was passed two identifiers: the request for BTC got a non-success
\* status, the request for ETH was still issued and its price returned
C23_Witness ==
  \E c \in Calls :
    /\ call[c].pc = "returned" /\ call[c].rank = 4
    /\ call[c].asked[4] = <<"BTC", "ETH">>
    /\ call[c].requested[4] = <<"btc", "eth">>
    /\ call[c].kaikoFailed = {"BTC"}
    /\ DOMAIN call[c].ret[4] = {"ETH"}

CacheSetBySuccessfulFetch ==
  coinGeckoListCache' # coinGeckoListCache =>
    /\ ~coinGeckoListCache'.isNull
    /\ listFailures' = listFailures
    /\ \E c \in Calls :
         /\ call[c].pc = "list" /\ call'[c].pc # "list"
         /\ call'[c].coinList = coinGeckoListCache'.list

\* a failed list fetch leaves the cache as it was
FailedFetchLeavesCache ==
  listFailures' # listFailures => coinGeckoListCache' = coinGeckoListCache

\* a call that starts with identifiers while the cache is populated issues
\* no list request and translates from the cached list
StartReadsPopulatedCache ==
  \A c \in Calls :
    (/\ call[c].pc = "idle" /\ call'[c].pc # "idle"
     /\ call'[c].asked[1] # <<>>
     /\ ~coinGeckoListCache.isNull) =>
       /\ call'[c].listReqs = 0
       /\ listRequests' = listRequests
       /\ call'[c].coinList = coinGeckoListCache.list
       /\ call'[c].requested[1] = CoingeckoIds(coinGeckoListCache.list, call'[c].asked[1])

Collide(c, i, j) ==
  /\ i < j
  /\ toLowerCase(call[c].asked[1][i]) = toLowerCase(call[c].asked[1][j])
  /\ \E h \in 1..Len(call[c].coinList) :
       call[c].coinList[h].symbol = toLowerCase(call[c].asked[1][i])

\* C25 (case collision in provider 1): when two requested identifiers
\* translate to the same directory entry, tryCoinGecko never returns the one
\* earlier in input order and returns the later one when the answer prices
\* the coin; the earlier one stays remaining and is passed to provider 2,
\* and both are keys of the returned mapping.
C25_CaseCollision ==
  \A c \in Calls :
    call[c].pc \notin {"idle", "list"} =>
      \A i, j \in 1..Len(call[c].asked[1]) :
        Collide(c, i, j) =>
          LET s == call[c].asked[1][i]
              t == call[c].asked[1][j]
          IN /\ s \notin DOMAIN call[c].ret[1]
             /\ (call[c].outcome[1] = "ok" /\ t \notin call[c].badPrice[1])
                  => t \in DOMAIN call[c].ret[1]
             /\ (call[c].rank > 1 \/ call[c].pc = "done") =>
                  2 \in call[c].invoked /\ s \in Range(call[c].asked[2])
             /\ HasReturned(c) => {s, t} \subseteq DOMAIN call[c].finalPrices

\* the input was BTC then btc: provider 1 priced bitcoin and returned it
\* under btc, BTC was passed to provider 2, and the mapping has both
C25_Witness ==
  \E c \in Calls :
    /\ HasReturned(c)
    /\ call[c].assetSymbols = <<"BTC", "btc">>
    /\ call[c].requested[1] = <<"bitcoin", "bitcoin">>
    /\ DOMAIN call[c].ret[1] = {"btc"}
    /\ call[c].asked[2] = <<"BTC">>
    /\ DOMAIN call[c].finalPrices = {"BTC", "btc"}

\* C26 (static-map variant, error path): the function issues at most one
\* request; when that request gets a non-success status or throws, it logs
\* the error and throws it to its caller instead of returning a mapping; on
\* an empty input, or when no symbol is in symbolToIdMap, it returns {}
\* without a request.
C26_StaticErrorPath ==
  /\ staticCall.requests <= 1
  /\ staticCall.pc = "done" =>
       /\ staticCall.outcome \in Failures <=> staticCall.result = "threw"
       /\ staticCall.result = "threw" =>
            staticCall.logged /\ staticCall.value = EmptyResult
       /\ staticCall.result = "returned" => ~staticCall.logged
       /\ InStaticMap(staticCall.assetSymbols) = <<>> =>
            /\ staticCall.result = "returned"
            /\ staticCall.value = EmptyResult
            /\ staticCall.requests = 0
       /\ InStaticMap(staticCall.assetSymbols) # <<>> => staticCall.requests = 1

\* the request for bitcoin got a non-success status: the call logged and threw
C26_Witness ==
  /\ staticCall.pc = "done"
  /\ staticCall.assetSymbols = <<"XYZ", "btc">>
  /\ staticCall.coingeckoIds = <<"bitcoin">>
  /\ staticCall.outcome = "status"
  /\ staticCall.result = "threw"
  /\ staticCall.logged

\* C27 (static-map variant, result keys): every key of the returned mapping
\* is an input symbol as given whose uppercase form is in symbolToIdMap and
\* for whose id the answer holds data, which it maps to; a symbol that is not
\* in the map, or whose id the answer lacks, gets no entry and no placeholder;
\* of the symbols that translate to the same id the last one is the key.
C27_StaticResultKeys ==
  (staticCall.pc = "done" /\ staticCall.result = "returned") =>
    LET symbols == staticCall.assetSymbols
        priced(s) == /\ toUpperCase(s) \in DOMAIN symbolToIdMap
                     /\ symbolToIdMap[toUpperCase(s)] \in DOMAIN staticCall.data
    IN /\ \A key \in DOMAIN staticCall.value :
            /\ key \in Range(symbols)
            /\ priced(key)
            /\ staticCall.value[key] = staticCall.data[symbolToIdMap[toUpperCase(key)]]
       /\ \A j \in 1..Len(symbols) :
            (/\ priced(symbols[j])
             /\ \A h \in (j + 1)..Len(symbols) :
                  toUpperCase(symbols[h]) # toUpperCase(symbols[j]))
              => symbols[j] \in DOMAIN staticCall.value

\* XYZ is in no map and the answer holds bitcoin and an id nobody asked
\* for: the mapping has the one key btc, as given
C27_Witness ==
  /\ staticCall.pc = "done"
  /\ staticCall.result = "returned"
  /\ staticCall.assetSymbols = <<"XYZ", "btc">>
  /\ DOMAIN staticCall.data = {"bitcoin", "solana"}
  /\ staticCall.value = [s \in {"btc"} |-> PriceData(Num(5), Num(-1))]

\* C28 (dashboard load state machine): while calculateMetrics waits for one
\* of its three steps loading is true and error is null; when it has ended
\* loading is false, whichever step threw or none; error is non-null at the
\* end exactly when a step threw, also when the profiles query failed after
\* the metrics were set.
C28_DashboardLoadState ==
  /\ dashboard.pc \in {"transactions", "prices", "profiles"} =>
       /\ dashboard.loading
       /\ dashboard.error = Null
       /\ dashboard.threw = "none"
  /\ dashboard.pc = "done" =>
       /\ ~dashboard.loading
       /\ ~dashboard.error.isNull <=> dashboard.threw # "none"
       /\ dashboard.threw = "profiles" => ~dashboard.metrics.isNull
       /\ dashboard.threw \in {"transactions", "prices"} => dashboard.metrics.isNull

\* the profiles query failed after the metrics were set from a priced
\* position: loading is false, error is set
C28_Witness ==
  /\ dashboard.pc = "done"
  /\ dashboard.threw = "profiles"
  /\ dashboard.metrics = [isNull |-> FALSE, totalValue |-> 6]
  /\ dashboard.openPositions = {"BTC"}
  /\ ~dashboard.loading
  /\ dashboard.error = Message("No client profiles found.")

====
